---- MODULE Spec2Model ----
(***************************************************************************)
(* SkySwitcher (src/main.py): the input-event correlation and replay state *)
(* machine.  The event loop SkySwitcher.run reads key events from the      *)
(* physical keyboard, keeps the typed keystrokes in InputBuffer, detects a *)
(* double press of the trigger key (Right Shift) and, on its release,      *)
(* runs fix_last_word: force-release the modifiers, delete the last        *)
(* phrase with Backspaces, emit the layout-switch hotkey and re-type the   *)
(* phrase, all through the virtual uinput device.                          *)
(*                                                                         *)
(* Time is counted in ticks of 0.5 s: DOUBLE_PRESS_DELAY (0.5 s) is one    *)
(* tick and TYPING_TIMEOUT (3.0 s) is six.  The clock is read only by      *)
(* InputBuffer.add (line 175) and by the trigger-press branch of run (line *)
(* 405); `now` is the latest value time.time() returned, and the time that *)
(* passes between two reads (the sleeps of the replay included) is the gap *)
(* chosen at the next read.                                                *)
(***************************************************************************)
EXTENDS Integers, Sequences, FiniteSets

\* ------------------------------------------------------------ key codes
\* evdev ecodes (linux/input-event-codes.h) as used by src/main.py.
EV_SYN == 0
EV_KEY == 1
SYN_REPORT == 0
KEY_ESC == 1
KEY_1 == 2
KEY_BACKSPACE == 14
KEY_I == 23
KEY_LEFTCTRL == 29
KEY_H == 35
KEY_LEFTSHIFT == 42
KEY_SLASH == 53
KEY_RIGHTSHIFT == 54
KEY_LEFTALT == 56
KEY_SPACE == 57
KEY_CAPSLOCK == 58
KEY_RIGHTCTRL == 97
KEY_RIGHTALT == 100
KEY_LEFTMETA == 125
KEY_RIGHTMETA == 126

\* event.value of an EV_KEY event
Up == 0
Down == 1
Repeat == 2

\* ------------------------------------------------------------ constants
\* src/main.py:23, in ticks of 0.5 s
DOUBLE_PRESS_DELAY == 1
\* src/main.py:24, in ticks of 0.5 s
TYPING_TIMEOUT == 6
\* src/main.py:25.  The capacity (100 in the source) is a bound of the model:
\* it is kept small so that a full buffer is reached.
MAX_BUFFER_SIZE == 3

\* HOTKEY_STYLES, src/main.py:35-40
HOTKEY_STYLES ==
    [ alt  |-> <<KEY_LEFTALT, KEY_LEFTSHIFT>>,
      meta |-> <<KEY_LEFTMETA, KEY_SPACE>>,
      caps |-> <<KEY_CAPSLOCK>>,
      ctrl |-> <<KEY_LEFTCTRL, KEY_LEFTSHIFT>> ]

StyleNames == {"alt", "meta", "caps", "ctrl"}

\* ------------------------------------------------------------ bounds
\* the clock of the event-loop specification stops at StartTime + MaxSpan
MaxSpan == 7
\* events dispatched in a recorded run (SpecTrig)
MaxEvents == 6
\* calls of InputBuffer.add in a recorded run (SpecBuf)
MaxAdds == 4
\* events dispatched in a recorded run with both Shift keys (SpecShift)
MaxShiftEvents == 5
\* events waiting in the device queue (SpecQueue)
MaxQueue == 3
\* events dispatched in a recorded run of trigger taps (SpecTaps)
MaxTapEvents == 10

\* time.time() is seconds since the epoch: far more than any timeout.
StartTime == TYPING_TIMEOUT + 1

VARIABLES
    buffer,            \* InputBuffer.buffer: sequence of <<keycode, is_shifted>>
    last_key_time,     \* InputBuffer.last_key_time
    switch_keys,       \* SkySwitcher.switch_keys
    last_press_time,   \* SkySwitcher.last_press_time
    trigger_released,  \* SkySwitcher.trigger_released
    shift_pressed,     \* SkySwitcher.shift_pressed
    pending_action,    \* SkySwitcher.pending_action
    pc,                \* where the thread is: "read", or inside fix_last_word
    keys_to_replay,    \* fix_last_word's local: the phrase being replayed
    idx,               \* the running loop's count of finished iterations
    now,               \* the latest reading of time.time()
    sink,              \* what was written to the uinput device since the last read
    trace,             \* the events (or buffer calls) of a recorded run
    cache,             \* switcher_old.py: the global cache, a deque of key codes
    last_shift_press,  \* switcher_old.py: the global last_shift_press
    last_ctrl_press    \* switcher_old.py: the global last_ctrl_press

vars == <<buffer, last_key_time, switch_keys, last_press_time, trigger_released,
          shift_pressed, pending_action, pc, keys_to_replay, idx, now, sink,
          trace, cache, last_shift_press, last_ctrl_press>>

\* the globals of the older variant, switcher_old.py, which main.py never
\* touches
old_globals == <<cache, last_shift_press, last_ctrl_press>>

\* ------------------------------------------------------------ InputBuffer
\* self.trackable_range = range(e.KEY_1, e.KEY_SLASH + 1)
trackable_range == KEY_1 .. KEY_SLASH

\* expire without the reset: a stale buffer is kept
expire_never(buf, lkt, t) == buf

\* expire with the timeout itself counted as exceeded
expire_inclusive(buf, lkt, t) == IF (t - lkt) >= TYPING_TIMEOUT THEN <<>> ELSE buf

\* lines 176-178: the lazy idle-timeout reset
expire(buf, lkt, t) == IF (t - lkt) > TYPING_TIMEOUT THEN <<>> ELSE buf

\* pop_last popping the oldest element, pop(0)
pop_first(buf) == IF buf # <<>> THEN Tail(buf) ELSE buf

\* lines 181-184: Backspace pops the last element, if any
pop_last(buf) == IF buf # <<>> THEN SubSeq(buf, 1, Len(buf) - 1) ELSE buf

\* append_bounded dropping the newest element, pop()
append_bounded_drop_newest(buf, item) ==
    LET a == Append(buf, item)
    IN  IF Len(a) > MAX_BUFFER_SIZE THEN SubSeq(a, 1, Len(a) - 1) ELSE a

\* lines 187-189: append, dropping the oldest element over capacity
append_bounded(buf, item) ==
    LET a == Append(buf, item)
    IN  IF Len(a) > MAX_BUFFER_SIZE THEN Tail(a) ELSE a

\* InputBuffer.add: the buffer after add(keycode, is_shifted) at clock reading t
add(buf, lkt, keycode, is_shifted, t) ==
    LET b == expire(buf, lkt, t)
    IN  IF keycode = KEY_BACKSPACE THEN pop_last(b)
        ELSE IF keycode = KEY_SPACE \/ keycode \in trackable_range
             THEN append_bounded(b, <<keycode, is_shifted>>)
             ELSE b

\* InputBuffer.get_last_phrase, lines 203-217: the backward scan.  i is the
\* position of the next item of reversed(self.buffer).
RECURSIVE scan(_, _, _, _)
scan(buf, i, found_char, result) ==
    IF i = 0 THEN result
    ELSE IF buf[i][1] = KEY_SPACE
         THEN IF found_char THEN result
              ELSE scan(buf, i - 1, found_char, <<buf[i]>> \o result)
         ELSE scan(buf, i - 1, TRUE, <<buf[i]>> \o result)

\* get_last_phrase without the break at line 210: the whole buffer
get_last_phrase_whole_buffer(buf) == buf

\* get_last_phrase with found_char starting True: trailing Spaces end the scan
get_last_phrase_word_only(buf) ==
    IF buf = <<>> THEN <<>> ELSE scan(buf, Len(buf), TRUE, <<>>)

get_last_phrase(buf) == IF buf = <<>> THEN <<>> ELSE scan(buf, Len(buf), FALSE, <<>>)

\* ------------------------------------------------------------ uinput writes
\* self.ui.write(e.EV_KEY, code, value)
Write(code, value) == <<EV_KEY, code, value>>
\* self.ui.syn(): evdev writes (EV_SYN, SYN_REPORT, 0)
Syn == <<EV_SYN, SYN_REPORT, 0>>

\* reset_modifiers, lines 323-328
modifiers ==
    <<KEY_LEFTSHIFT, KEY_RIGHTSHIFT, KEY_LEFTCTRL, KEY_RIGHTCTRL,
      KEY_LEFTALT, KEY_RIGHTALT, KEY_LEFTMETA, KEY_RIGHTMETA>>

\* reset_modifiers, lines 331-333
reset_modifiers_out ==
    [i \in 1 .. Len(modifiers) |-> Write(modifiers[i], Up)] \o <<Syn>>

\* backspace_out without the release of Backspace
backspace_out_held ==
    <<Write(KEY_BACKSPACE, Down), Syn>>

\* one iteration of the delete loop, lines 360-363
backspace_out ==
    <<Write(KEY_BACKSPACE, Down), Syn, Write(KEY_BACKSPACE, Up), Syn>>

\* perform_layout_switch releasing with reversed(self.switch_keys)
perform_layout_switch_out_reversed(keys) ==
    IF keys = <<>> THEN <<>>
    ELSE [i \in 1 .. Len(keys) |-> Write(keys[i], Down)] \o <<Syn>>
         \o [i \in 1 .. Len(keys) |-> Write(keys[Len(keys) + 1 - i], Up)] \o <<Syn>>

\* perform_layout_switch, lines 278-293
perform_layout_switch_out(keys) ==
    IF keys = <<>> THEN <<>>
    ELSE [i \in 1 .. Len(keys) |-> Write(keys[i], Down)] \o <<Syn>>
         \o [i \in 1 .. Len(keys) |-> Write(keys[i], Up)] \o <<Syn>>

\* replay_key_out without the release of Shift after a shifted key
replay_key_out_shift_held(code, use_shift) ==
    (IF use_shift THEN <<Write(KEY_LEFTSHIFT, Down), Syn>> ELSE <<>>)
    \o <<Write(code, Down), Syn, Write(code, Up), Syn>>

\* one iteration of replay_keys, lines 305-314
replay_key_out(code, use_shift) ==
    (IF use_shift THEN <<Write(KEY_LEFTSHIFT, Down), Syn>> ELSE <<>>)
    \o <<Write(code, Down), Syn, Write(code, Up), Syn>>
    \o (IF use_shift THEN <<Write(KEY_LEFTSHIFT, Up), Syn>> ELSE <<>>)

\* ------------------------------------------------------------ construction
\* switcher_old.py, lines 111-113: its globals as the module is loaded
old_globals_init ==
    /\ cache = <<>>
    /\ last_shift_press = 0
    /\ last_ctrl_press = 0

\* InputBuffer.__init__ and SkySwitcher.__init__ (lines 163-165, 259-264);
\* switch_keys is one of HOTKEY_STYLES (line 471).
InitWith(styles) ==
    /\ buffer = <<>>
    /\ last_key_time = 0
    /\ switch_keys \in {HOTKEY_STYLES[s] : s \in styles}
    /\ last_press_time = 0
    /\ trigger_released = TRUE
    /\ shift_pressed = FALSE
    /\ pending_action = FALSE
    /\ pc = "read"
    /\ keys_to_replay = <<>>
    /\ idx = 0
    /\ now = StartTime
    /\ sink = <<>>
    /\ trace = <<>>
    /\ old_globals_init

\* ------------------------------------------------------------ the event loop
trigger_btn == KEY_RIGHTSHIFT

\* is_double_press without the trigger_released test
is_double_press_timing_only(t) ==
    t - last_press_time < DOUBLE_PRESS_DELAY

\* is_double_press with the window's end included
is_double_press_inclusive(t) ==
    (t - last_press_time <= DOUBLE_PRESS_DELAY) /\ trigger_released

\* line 406: the second press of a double press
is_double_press(t) ==
    (t - last_press_time < DOUBLE_PRESS_DELAY) /\ trigger_released

\* shift_after taking only Down for held: event.value == 1
shift_after_down_only(code, value) ==
    IF code \in {KEY_LEFTSHIFT, KEY_RIGHTSHIFT}
    THEN value = Down
    ELSE shift_pressed

\* line 397-398: shift_pressed after the event
shift_after(code, value) ==
    IF code \in {KEY_LEFTSHIFT, KEY_RIGHTSHIFT}
    THEN (value = Down \/ value = Repeat)
    ELSE shift_pressed

\* whether handling the event reads the clock (lines 405 and 175)
reads_clock(code, value) ==
    IF code = trigger_btn THEN value = Down ELSE value \in {Down, Repeat}

\* on_trigger_down acting on the second press itself
on_trigger_down_fires(t) ==
    /\ IF is_double_press(t)
       THEN pending_action' = TRUE /\ last_press_time' = 0 /\ pc' = "fix_last_word"
       ELSE last_press_time' = t /\ pending_action' = FALSE /\ pc' = "read"
    /\ trigger_released' = FALSE
    /\ UNCHANGED <<buffer, last_key_time>>

\* on_trigger_down keeping the time of the confirming press
on_trigger_down_keeps_time(t) ==
    /\ IF is_double_press(t)
       THEN pending_action' = TRUE /\ last_press_time' = t
       ELSE last_press_time' = t /\ pending_action' = FALSE
    /\ trigger_released' = FALSE
    /\ pc' = "read"
    /\ UNCHANGED <<buffer, last_key_time>>

\* lines 404-413: trigger key press
on_trigger_down(t) ==
    /\ IF is_double_press(t)
       THEN pending_action' = TRUE /\ last_press_time' = 0
       ELSE last_press_time' = t /\ pending_action' = FALSE
    /\ trigger_released' = FALSE
    /\ pc' = "read"
    /\ UNCHANGED <<buffer, last_key_time>>

\* lines 416-423: trigger key release; a pending action calls fix_last_word
on_trigger_up ==
    /\ trigger_released' = TRUE
    /\ pc' = IF pending_action THEN "fix_last_word" ELSE "read"
    /\ UNCHANGED <<buffer, last_key_time, last_press_time, pending_action>>

\* on_other_key without lines 430-431
on_other_key_no_cancel(code, t) ==
    /\ buffer' = add(buffer, last_key_time, code, shift_after(code, Down), t)
    /\ last_key_time' = t
    /\ pc' = "read"
    /\ UNCHANGED <<trigger_released, pending_action, last_press_time>>

\* lines 426-431: any other key, pressed or repeating
on_other_key(code, t) ==
    /\ buffer' = add(buffer, last_key_time, code, shift_after(code, Down), t)
    /\ last_key_time' = t
    /\ last_press_time' = IF last_press_time > 0 THEN 0 ELSE last_press_time
    /\ pc' = "read"
    /\ UNCHANGED <<trigger_released, pending_action>>

\* handle without the test of event.value at line 426: releases of other
\* keys are recorded too
handle_any_value(code, value, t) ==
    /\ shift_pressed' = shift_after(code, value)
    /\ IF code = trigger_btn
       THEN IF value = Down THEN on_trigger_down(t)
            ELSE IF value = Up THEN on_trigger_up
            ELSE /\ pc' = "read"
                 /\ UNCHANGED <<buffer, last_key_time, last_press_time,
                                trigger_released, pending_action>>
       ELSE on_other_key(code, t)
    /\ sink' = <<>>
    /\ UNCHANGED <<switch_keys, keys_to_replay, idx>>
    /\ UNCHANGED old_globals

\* handle with the trigger's Repeat recorded like any held key
handle_records_trigger(code, value, t) ==
    /\ shift_pressed' = shift_after(code, value)
    /\ IF code = trigger_btn
       THEN IF value = Down THEN on_trigger_down(t)
            ELSE IF value = Up THEN on_trigger_up
            ELSE /\ pc' = "read"
                 /\ buffer' = append_bounded(buffer, <<code, shift_after(code, value)>>)
                 /\ UNCHANGED <<last_key_time, last_press_time,
                                trigger_released, pending_action>>
       ELSE IF value \in {Down, Repeat}
            THEN on_other_key(code, t)
            ELSE /\ pc' = "read"
                 /\ UNCHANGED <<buffer, last_key_time, last_press_time,
                                trigger_released, pending_action>>
    /\ sink' = <<>>
    /\ UNCHANGED <<switch_keys, keys_to_replay, idx>>
    /\ UNCHANGED old_globals

\* lines 394-431: one iteration of the read loop on event (code, value), the
\* clock reading t taken if the branch reads it
handle(code, value, t) ==
    /\ shift_pressed' = shift_after(code, value)
    /\ IF code = trigger_btn
       THEN IF value = Down THEN on_trigger_down(t)
            ELSE IF value = Up THEN on_trigger_up
            ELSE /\ pc' = "read"
                 /\ UNCHANGED <<buffer, last_key_time, last_press_time,
                                trigger_released, pending_action>>
       ELSE IF value \in {Down, Repeat}
            THEN on_other_key(code, t)
            ELSE /\ pc' = "read"
                 /\ UNCHANGED <<buffer, last_key_time, last_press_time,
                                trigger_released, pending_action>>
    /\ sink' = <<>>
    /\ UNCHANGED <<switch_keys, keys_to_replay, idx>>
    /\ UNCHANGED old_globals

\* Dispatch from whatever place the thread is at, as a handler running on
\* a second thread would
Dispatch_interrupting(code, value, gap) ==
    /\ now' = IF reads_clock(code, value) THEN now + gap ELSE now
    /\ handle(code, value, now')

\* The loop takes the next event from device.read_loop(); gap is the time
\* since the previous clock reading.
Dispatch(code, value, gap) ==
    /\ pc = "read"
    /\ now' = IF reads_clock(code, value) THEN now + gap ELSE now
    /\ handle(code, value, now')

\* ------------------------------------------------------------ fix_last_word
fix_frame == <<buffer, last_key_time, switch_keys, last_press_time,
               trigger_released, shift_pressed, pending_action, now, trace,
               old_globals>>

\* FixBegin without the early return of lines 348-350
FixBegin_no_early_return ==
    /\ pc = "fix_last_word"
    /\ keys_to_replay' = get_last_phrase(buffer)
    /\ pc' = "reset_modifiers"
    /\ UNCHANGED <<idx, sink>>
    /\ UNCHANGED fix_frame

\* lines 347-350: read the phrase; return at once when it is empty
FixBegin ==
    /\ pc = "fix_last_word"
    /\ keys_to_replay' = get_last_phrase(buffer)
    /\ pc' = IF keys_to_replay' = <<>> THEN "fix_return" ELSE "reset_modifiers"
    /\ UNCHANGED <<idx, sink>>
    /\ UNCHANGED fix_frame

\* line 353: reset_modifiers()
ResetModifiers ==
    /\ pc = "reset_modifiers"
    /\ sink' = sink \o reset_modifiers_out
    /\ idx' = 0
    /\ pc' = "delete"
    /\ UNCHANGED keys_to_replay
    /\ UNCHANGED fix_frame

\* DeleteStep deleting len(self.input_buffer.buffer) characters instead of
\* len(keys_to_replay)
DeleteStep_whole_buffer ==
    /\ pc = "delete"
    /\ IF idx < Len(buffer)
       THEN sink' = sink \o backspace_out /\ idx' = idx + 1 /\ pc' = "delete"
       ELSE sink' = sink /\ idx' = 0 /\ pc' = "perform_layout_switch"
    /\ UNCHANGED keys_to_replay
    /\ UNCHANGED fix_frame

\* lines 359-364: one iteration of the delete loop, or its end
DeleteStep ==
    /\ pc = "delete"
    /\ IF idx < Len(keys_to_replay)
       THEN sink' = sink \o backspace_out /\ idx' = idx + 1 /\ pc' = "delete"
       ELSE sink' = sink /\ idx' = 0 /\ pc' = "perform_layout_switch"
    /\ UNCHANGED keys_to_replay
    /\ UNCHANGED fix_frame

\* line 367: perform_layout_switch()
PerformLayoutSwitch ==
    /\ pc = "perform_layout_switch"
    /\ sink' = sink \o perform_layout_switch_out(switch_keys)
    /\ idx' = 0
    /\ pc' = "replay_keys"
    /\ UNCHANGED keys_to_replay
    /\ UNCHANGED fix_frame

\* line 370, lines 304-315: one iteration of replay_keys, or its end
ReplayStep ==
    /\ pc = "replay_keys"
    /\ IF idx < Len(keys_to_replay)
       THEN /\ sink' = sink \o replay_key_out(keys_to_replay[idx + 1][1],
                                              keys_to_replay[idx + 1][2])
            /\ idx' = idx + 1
            /\ pc' = "replay_keys"
       ELSE sink' = sink /\ idx' = idx /\ pc' = "fix_return"
    /\ UNCHANGED keys_to_replay
    /\ UNCHANGED fix_frame

\* FixReturn without line 423: pending_action stays set
FixReturn_keeps_pending ==
    /\ pc = "fix_return"
    /\ pending_action' = pending_action
    /\ keys_to_replay' = <<>>
    /\ idx' = 0
    /\ pc' = "read"
    /\ UNCHANGED <<buffer, last_key_time, switch_keys, last_press_time,
                   trigger_released, shift_pressed, now, sink, trace>>
    /\ UNCHANGED old_globals

\* line 423: fix_last_word has returned (its locals are gone) and run clears
\* pending_action
FixReturn ==
    /\ pc = "fix_return"
    /\ pending_action' = FALSE
    /\ keys_to_replay' = <<>>
    /\ idx' = 0
    /\ pc' = "read"
    /\ UNCHANGED <<buffer, last_key_time, switch_keys, last_press_time,
                   trigger_released, shift_pressed, now, sink, trace>>
    /\ UNCHANGED old_globals

FixLastWord ==
    \/ FixBegin
    \/ ResetModifiers
    \/ DeleteStep
    \/ PerformLayoutSwitch
    \/ ReplayStep
    \/ FixReturn

\* ------------------------------------------------------------ Spec
\* The event loop on a keyboard with these keys, with the default hotkey
\* style (line 230).
Keys == {KEY_H, KEY_SPACE, KEY_BACKSPACE, KEY_ESC, KEY_LEFTSHIFT, KEY_RIGHTSHIFT}
Values == {Up, Down, Repeat}
Gaps == {0, DOUBLE_PRESS_DELAY, TYPING_TIMEOUT + 1}

Init == InitWith({"meta"})

KeyEvent ==
    \E code \in Keys, value \in Values, gap \in Gaps :
        /\ now + gap <= StartTime + MaxSpan
        /\ Dispatch(code, value, gap)
        /\ UNCHANGED <<trace>>

Next == KeyEvent \/ FixLastWord

Spec == Init /\ [][Next]_vars

\* ------------------------------------------------------------ SpecTrig
\* The event loop with every dispatched event recorded: trace holds
\* <<code, value, clock, called>>, where clock is the clock reading after the
\* event and called tells whether handling it called fix_last_word (line 422).
TrigEvents == {<<KEY_RIGHTSHIFT, Down>>, <<KEY_RIGHTSHIFT, Up>>,
               <<KEY_RIGHTSHIFT, Repeat>>, <<KEY_H, Down>>}
TrigGaps == {0, DOUBLE_PRESS_DELAY}

RecordedEvent ==
    \E ev \in TrigEvents, gap \in TrigGaps :
        /\ Len(trace) < MaxEvents
        /\ reads_clock(ev[1], ev[2]) \/ gap = 0
        /\ Dispatch(ev[1], ev[2], gap)
        /\ trace' = Append(trace, <<ev[1], ev[2], now', pc' = "fix_last_word">>)

NextTrig == RecordedEvent \/ FixLastWord

SpecTrig == Init /\ [][NextTrig]_vars

\* ------------------------------------------------------------ SpecBuf
\* InputBuffer on its own: calls of add, recorded in trace as
\* <<keycode, is_shifted, clock>>, and calls of get_last_phrase, whose return
\* value is kept in keys_to_replay.  pc names the last call.
BufCalls == {<<KEY_H, FALSE>>, <<KEY_H, TRUE>>, <<KEY_I, FALSE>>,
             <<KEY_SPACE, FALSE>>, <<KEY_BACKSPACE, FALSE>>, <<KEY_ESC, FALSE>>}
BufGaps == {TYPING_TIMEOUT, TYPING_TIMEOUT + 1}

BufAdd ==
    \E c \in BufCalls, gap \in BufGaps :
        /\ Len(trace) < MaxAdds
        /\ now' = now + gap
        /\ buffer' = add(buffer, last_key_time, c[1], c[2], now')
        /\ last_key_time' = now'
        /\ trace' = Append(trace, <<c[1], c[2], now'>>)
        /\ pc' = "add"
        /\ keys_to_replay' = <<>>
        /\ UNCHANGED <<switch_keys, last_press_time, trigger_released,
                       shift_pressed, pending_action, idx, sink>>
        /\ UNCHANGED old_globals

\* BufGetLastPhrase taking the phrase out of the buffer as it reads it
BufGetLastPhrase_draining ==
    /\ keys_to_replay' = get_last_phrase(buffer)
    /\ buffer' = SubSeq(buffer, 1, Len(buffer) - Len(keys_to_replay'))
    /\ pc' = "get_last_phrase"
    /\ UNCHANGED <<last_key_time, switch_keys, last_press_time,
                   trigger_released, shift_pressed, pending_action, idx, now,
                   sink, trace>>
    /\ UNCHANGED old_globals

\* a call of get_last_phrase (lines 191-217): it reads self.buffer only
BufGetLastPhrase ==
    /\ keys_to_replay' = get_last_phrase(buffer)
    /\ pc' = "get_last_phrase"
    /\ UNCHANGED <<buffer, last_key_time, switch_keys, last_press_time,
                   trigger_released, shift_pressed, pending_action, idx, now,
                   sink, trace>>
    /\ UNCHANGED old_globals

NextBuf == BufAdd \/ BufGetLastPhrase

SpecBuf == Init /\ [][NextBuf]_vars

\* ------------------------------------------------------------ SpecShift
\* The event loop on Down, Repeat and Up of both Shift keys (Right Shift is
\* the trigger) and Down and Up of a letter, every event recorded in trace
\* as in SpecTrig; the events follow each other with equal clock readings.
ShiftEvents == ({KEY_LEFTSHIFT, KEY_RIGHTSHIFT} \X {Down, Repeat, Up})
                   \cup {<<KEY_H, Down>>, <<KEY_H, Up>>}

RecordedShiftEvent ==
    \E ev \in ShiftEvents :
        /\ Len(trace) < MaxShiftEvents
        /\ Dispatch(ev[1], ev[2], 0)
        /\ trace' = Append(trace, <<ev[1], ev[2], now', pc' = "fix_last_word">>)

NextShift == RecordedShiftEvent \/ FixLastWord

SpecShift == Init /\ [][NextShift]_vars

\* ------------------------------------------------------------ SpecQueue
\* The event loop with the device's queue: trace holds the <<code, value>>
\* of the physical events that have arrived and that read_loop (line 394)
\* has not yet handed to the loop.  Events arrive at any time, also while the
\* thread is inside fix_last_word; the loop takes the oldest one when it is
\* back at the read.  The events follow each other with equal clock readings.
QueueEvents == {<<KEY_RIGHTSHIFT, Down>>, <<KEY_RIGHTSHIFT, Up>>, <<KEY_H, Down>>}

Arrive ==
    \E ev \in QueueEvents :
        /\ Len(trace) < MaxQueue
        /\ trace' = Append(trace, ev)
        /\ UNCHANGED <<buffer, last_key_time, switch_keys, last_press_time,
                       trigger_released, shift_pressed, pending_action, pc,
                       keys_to_replay, idx, now, sink>>
        /\ UNCHANGED old_globals

ReadEvent ==
    /\ trace # <<>>
    /\ Dispatch(Head(trace)[1], Head(trace)[2], 0)
    /\ trace' = Tail(trace)

NextQueue == Arrive \/ ReadEvent \/ FixLastWord

SpecQueue == Init /\ [][NextQueue]_vars

\* ------------------------------------------------------------ SpecTaps
\* The event loop on presses and releases of the trigger alone, after at
\* most one letter typed first; every event is recorded in trace as in
\* SpecTrig.
TapEvents == {<<KEY_RIGHTSHIFT, Down>>, <<KEY_RIGHTSHIFT, Up>>, <<KEY_H, Down>>}

RecordedTapEvent ==
    \E ev \in TapEvents, gap \in TrigGaps :
        /\ Len(trace) < MaxTapEvents
        /\ ev[1] = trigger_btn \/ trace = <<>>
        /\ reads_clock(ev[1], ev[2]) \/ gap = 0
        /\ Dispatch(ev[1], ev[2], gap)
        /\ trace' = Append(trace, <<ev[1], ev[2], now', pc' = "fix_last_word">>)

NextTaps == RecordedTapEvent \/ FixLastWord

SpecTaps == Init /\ [][NextTaps]_vars

\* ------------------------------------------------------------ SpecFix
\* fix_last_word from its call at line 422, on every buffer of these entries
\* and every hotkey style.  At the call the trigger has just been released
\* with a pending action.
FixItems == {<<KEY_H, FALSE>>, <<KEY_H, TRUE>>, <<KEY_I, FALSE>>, <<KEY_SPACE, FALSE>>}

RECURSIVE SeqsUpTo(_, _)
SeqsUpTo(S, n) ==
    IF n = 0 THEN {<<>>}
    ELSE LET shorter == SeqsUpTo(S, n - 1)
         IN  shorter \cup {Append(q, x) : q \in shorter, x \in S}

InitFix ==
    /\ buffer \in SeqsUpTo(FixItems, MAX_BUFFER_SIZE)
    /\ last_key_time = (IF buffer = <<>> THEN 0 ELSE StartTime)
    /\ switch_keys \in {HOTKEY_STYLES[s] : s \in StyleNames}
    /\ last_press_time = 0
    /\ trigger_released = TRUE
    /\ shift_pressed = FALSE
    /\ pending_action = TRUE
    /\ pc = "fix_last_word"
    /\ keys_to_replay = <<>>
    /\ idx = 0
    /\ now = StartTime
    /\ sink = <<>>
    /\ trace = <<>>
    /\ old_globals_init

SpecFix == InitFix /\ [][FixLastWord]_vars

\* ------------------------------------------------------------ switcher_old.py
\* The older variant: a cache of key codes, corrected on a double tap of
\* Right Shift.  Its clock is counted in ticks of DOUBLE_TAP_INTERVAL.
RIGHT_SHIFT == KEY_RIGHTSHIFT
RIGHT_CTRL == KEY_RIGHTCTRL
DOUBLE_TAP_INTERVAL == 1
CACHE_SIZE == 3

LAYOUTS == <<"us", "ua">>

\* the key codes that LAYOUT_MAPS['us'] maps: digits, minus, equal, the three
\* letter rows with their punctuation, Space; LAYOUT_MAPS['ua'] maps the same
us_codes ==
    (KEY_1 .. 13) \cup (16 .. 27) \cup (30 .. 41) \cup (44 .. KEY_SLASH)
        \cup {KEY_SPACE}

\* LAYOUT_MAPS, each map as the set of its keys
LAYOUT_MAPS == [us |-> us_codes, ua |-> us_codes]

NON_CLEARING_KEYS ==
    {KEY_LEFTSHIFT, KEY_RIGHTSHIFT, KEY_LEFTCTRL, KEY_RIGHTCTRL,
     KEY_LEFTALT, KEY_RIGHTALT, KEY_LEFTMETA, KEY_RIGHTMETA, KEY_CAPSLOCK}

\* what SpecOld leaves alone: the state of main.py
main_state == <<buffer, last_key_time, switch_keys, last_press_time,
                trigger_released, shift_pressed, pending_action,
                keys_to_replay, idx>>

\* cache.append(code) on deque(maxlen=CACHE_SIZE): the oldest leaves a full one
deque_append(q, code) ==
    IF Len(q) = CACHE_SIZE THEN Append(Tail(q), code) ELSE Append(q, code)

\* what to_map.get(code, from_map.get(code, '')) yields for the cached codes:
\* the characters of the next layout, named here by layout and code
translate(codes, to_layout) == [i \in 1 .. Len(codes) |-> <<to_layout, codes[i]>>]

\* correct_last_typed, lines 162-194, with the layout index that qdbus
\* reports; the subprocess calls are written to sink
correct_last_typed(current_index) ==
    LET current_layout == LAYOUTS[current_index + 1]
        next_index == (current_index + 1) % Len(LAYOUTS)
        next_layout == LAYOUTS[next_index + 1]
        maps_found == /\ current_layout \in DOMAIN LAYOUT_MAPS
                      /\ next_layout \in DOMAIN LAYOUT_MAPS
        codes_to_translate == cache
    IN  /\ cache' = <<>>
        /\ sink' = IF ~maps_found THEN <<>>
                   ELSE IF codes_to_translate = <<>>
                        THEN <<<<"setLayout", next_index>>>>
                        ELSE <<<<"backspace", Len(codes_to_translate)>>,
                               <<"setLayout", next_index>>,
                               <<"type", translate(codes_to_translate, next_layout)>>>>

\* correct_selection, lines 197-241: it retypes the selection, or nothing,
\* and does not touch the cache
correct_selection ==
    /\ sink' \in {<<>>, <<<<"type", "selection">>>>}
    /\ cache' = cache

\* old_other_key clearing the cache on the listed modifiers too
old_other_key_clears_on_modifier(code) ==
    /\ last_shift_press' = 0
    /\ last_ctrl_press' = 0
    /\ cache' = IF code = KEY_BACKSPACE THEN pop_last(cache)
                ELSE IF code \in LAYOUT_MAPS["us"] THEN deque_append(cache, code)
                ELSE <<>>

\* main, lines 308-318: the press of any other key
old_other_key(code) ==
    /\ last_shift_press' = 0
    /\ last_ctrl_press' = 0
    /\ cache' = IF code = KEY_BACKSPACE THEN pop_last(cache)
                ELSE IF code \in LAYOUT_MAPS["us"] THEN deque_append(cache, code)
                ELSE IF code \notin NON_CLEARING_KEYS THEN <<>>
                ELSE cache

\* main, lines 280-318: one iteration of the read loop on event (code, value)
\* at clock reading t
old_handle(code, value, t) ==
    IF code = RIGHT_SHIFT
    THEN IF value = Down
         THEN IF t - last_shift_press < DOUBLE_TAP_INTERVAL
              THEN /\ pc' = "wait_right_shift"
                   /\ UNCHANGED <<cache, last_shift_press, last_ctrl_press>>
              ELSE /\ pc' = "read"
                   /\ last_shift_press' = t
                   /\ last_ctrl_press' = 0
                   /\ cache' = cache
         ELSE pc' = "read" /\ UNCHANGED <<cache, last_shift_press, last_ctrl_press>>
    ELSE IF code = RIGHT_CTRL
    THEN IF value = Down
         THEN IF t - last_ctrl_press < DOUBLE_TAP_INTERVAL
              THEN /\ pc' = "wait_right_ctrl"
                   /\ UNCHANGED <<cache, last_shift_press, last_ctrl_press>>
              ELSE /\ pc' = "read"
                   /\ last_ctrl_press' = t
                   /\ last_shift_press' = 0
                   /\ cache' = cache
         ELSE pc' = "read" /\ UNCHANGED <<cache, last_shift_press, last_ctrl_press>>
    ELSE IF value = Down
    THEN pc' = "read" /\ old_other_key(code)
    ELSE pc' = "read" /\ UNCHANGED <<cache, last_shift_press, last_ctrl_press>>

\* whether the main loop reads the clock on the event (lines 283 and 294)
old_reads_clock(code, value) == code \in {RIGHT_SHIFT, RIGHT_CTRL} /\ value = Down

\* The events of SpecOld; trace holds the latest one as
\* <<code, value, place>>, place being where the thread read it.
OldKeys == {KEY_H, KEY_I, KEY_BACKSPACE, KEY_ESC, KEY_LEFTSHIFT,
            KEY_RIGHTSHIFT, KEY_RIGHTCTRL}
OldGaps == {0, DOUBLE_TAP_INTERVAL}

\* the main loop takes an event
OldDispatch ==
    \E code \in OldKeys, value \in Values, gap \in OldGaps :
        /\ pc = "read"
        /\ now + gap <= StartTime + MaxSpan
        /\ now' = IF old_reads_clock(code, value) THEN now + gap ELSE now
        /\ old_handle(code, value, now')
        /\ sink' = <<>>
        /\ trace' = <<<<code, value, pc>>>>
        /\ UNCHANGED main_state

\* wait_for_key_release, lines 244-258, takes an event: every event but the
\* release of the awaited key is dropped; on the release the correction is
\* made and main goes on at lines 286-288 (or 297-299)
WaitForKeyRelease ==
    \E code \in OldKeys, value \in Values :
        /\ pc \in {"wait_right_shift", "wait_right_ctrl"}
        /\ trace' = <<<<code, value, pc>>>>
        /\ IF pc = "wait_right_shift" /\ code = RIGHT_SHIFT /\ value = Up
           THEN /\ \E current_index \in 0 .. (Len(LAYOUTS) - 1) :
                      correct_last_typed(current_index)
                /\ last_shift_press' = 0 /\ last_ctrl_press' = 0
                /\ pc' = "read"
           ELSE IF pc = "wait_right_ctrl" /\ code = RIGHT_CTRL /\ value = Up
           THEN /\ correct_selection
                /\ last_shift_press' = 0 /\ last_ctrl_press' = 0
                /\ pc' = "read"
           ELSE UNCHANGED <<cache, last_shift_press, last_ctrl_press, pc, sink>>
        /\ UNCHANGED <<now>>
        /\ UNCHANGED main_state

\* The device fails (it is unplugged): wait_for_key_release returns False
\* (lines 255-258) and main goes on without the correction; the main loop's
\* own read ends the script (lines 320-325).
DeviceError ==
    /\ pc \in {"read", "wait_right_shift", "wait_right_ctrl"}
    /\ IF pc = "read"
       THEN pc' = "stopped" /\ UNCHANGED <<last_shift_press, last_ctrl_press>>
       ELSE pc' = "read" /\ last_shift_press' = 0 /\ last_ctrl_press' = 0
    /\ UNCHANGED <<cache, now, sink, trace>>
    /\ UNCHANGED main_state

NextOld == OldDispatch \/ WaitForKeyRelease \/ DeviceError

SpecOld == Init /\ [][NextOld]_vars

\* ============================================================ claims
\* the EV_KEY writes of a sink log, the syn() reports left out
KeyWrites(log) == SelectSeq(log, LAMBDA w : w[1] = EV_KEY)

\* a write of a key other than Left Shift
NotShiftWrite(w) == w[2] # KEY_LEFTSHIFT

\* The sink log w of one finished call, phrase p, hotkey combination k: the
\* modifier releases, then Len(p) Backspace pairs, then the combination
\* pressed and released, then the phrase's keys in order.
OrderedReplay(w, p, k) ==
    LET a == Len(modifiers)
        n == Len(p)
        m == Len(k)
        r == SubSeq(w, a + 2 * n + 2 * m + 1, Len(w))
        rk == SelectSeq(r, NotShiftWrite)
    IN  /\ Len(w) >= a + 4 * n + 2 * m
        /\ \A i \in 1 .. a : w[i][3] = Up /\ w[i][2] = modifiers[i]
        /\ \A i \in 1 .. n : /\ w[a + 2 * i - 1] = <<EV_KEY, KEY_BACKSPACE, Down>>
                             /\ w[a + 2 * i] = <<EV_KEY, KEY_BACKSPACE, Up>>
        /\ \A i \in 1 .. m : /\ w[a + 2 * n + i] = <<EV_KEY, k[i], Down>>
                             /\ w[a + 2 * n + m + i] = <<EV_KEY, k[i], Up>>
        /\ \A i \in 1 .. Len(r) : r[i][2] # KEY_BACKSPACE
        /\ Len(rk) = 2 * n
        /\ \A i \in 1 .. n : /\ rk[2 * i - 1] = <<EV_KEY, p[i][1], Down>>
                             /\ rk[2 * i] = <<EV_KEY, p[i][1], Up>>

\* C1: when fix_last_word has finished on a buffer whose last phrase has
\* N >= 1 elements, the sink holds, in this order: the release of every
\* modifier, exactly N Backspace Down/Up pairs, the layout-switch combination
\* (all keys Down, then all keys Up) once, and N replay Down/Up pairs with the
\* phrase's codes in phrase order; no Backspace after the switch, no replay
\* key before it.
C1_EmissionOrder ==
    (pc = "fix_return" /\ get_last_phrase(buffer) # <<>>)
        => OrderedReplay(KeyWrites(sink), get_last_phrase(buffer), switch_keys)

C1_Witness ==
    /\ pc = "fix_return"
    /\ Len(buffer) = 3
    /\ Len(keys_to_replay) = 2
    /\ keys_to_replay[1][2] = TRUE
    /\ Len(switch_keys) = 2
    /\ Len(sink) > 0

\* C2 (as claimed): after fix_last_word has completed on a non-empty buffer
\* the keystroke buffer is empty.
C2_BufferClearedAfterReplay ==
    (pc = "fix_return" /\ keys_to_replay # <<>>) => buffer = <<>>

\* C3: fix_last_word called on an empty buffer writes nothing to the sink,
\* returns at once, and leaves the buffer, the shift flag and the trigger
\* state unchanged.
C3_EmptyBufferNoOp ==
    /\ []((pc \in {"reset_modifiers", "delete", "perform_layout_switch",
                   "replay_keys", "fix_return"} /\ buffer = <<>>)
            => (pc = "fix_return" /\ sink = <<>>))
    /\ [][(pc = "fix_last_word" /\ buffer = <<>>)
            => /\ pc' = "fix_return"
               /\ sink' = <<>>
               /\ UNCHANGED <<buffer, last_key_time, shift_pressed,
                              last_press_time, trigger_released,
                              pending_action>>]_vars

C3_Witness == pc = "fix_return" /\ buffer = <<>> /\ sink = <<>> /\ trigger_released

\* ------------------------------------------------------------ recorded runs
TrigDownAt(i) == trace[i][1] = trigger_btn /\ trace[i][2] = Down
TrigUpAt(i) == trace[i][1] = trigger_btn /\ trace[i][2] = Up
OtherDownAt(i) == trace[i][1] # trigger_btn /\ trace[i][2] = Down
\* handling the i-th event called fix_last_word
CalledAt(i) == trace[i][4]
\* no trigger press or release strictly between events i and j
NoTapBetween(i, j) == \A m \in (i + 1) .. (j - 1) : ~TrigDownAt(m) /\ ~TrigUpAt(m)

\* C4: fix_last_word is called only while an Up of the trigger key is being
\* processed, and that Up follows a trigger Down that is at least the second
\* one; the thread is inside fix_last_word, and the sink holds synthesized
\* events, only while the latest physical event is a trigger Up.
C4_FixOnlyOnRelease ==
    /\ \A k \in 1 .. Len(trace) :
          CalledAt(k) =>
              /\ TrigUpAt(k)
              /\ \E i, j \in 1 .. (k - 1) :
                    i < j /\ TrigDownAt(i) /\ TrigDownAt(j) /\ NoTapBetween(j, k)
    /\ pc # "read" => (trace # <<>> /\ TrigUpAt(Len(trace)))
    /\ sink # <<>> => (trace # <<>> /\ TrigUpAt(Len(trace)))

C4_Witness ==
    /\ Len(trace) = 5
    /\ CalledAt(5)
    /\ pc = "replay_keys"
    /\ sink # <<>>

\* no trigger Up lies between two trigger Downs of the run
NoUpBetweenDowns ==
    \A i, j \in 1 .. Len(trace) :
        (i < j /\ TrigDownAt(i) /\ TrigDownAt(j))
            => \A m \in (i + 1) .. (j - 1) : ~TrigUpAt(m)

\* C5: in a run where no trigger Up occurs between trigger Downs (held key,
\* auto-repeat), whatever the clock readings, pending_action is never set
\* and fix_last_word is never called.
C5_NoConfirmWithoutRelease ==
    NoUpBetweenDowns =>
        /\ ~pending_action
        /\ pc = "read"
        /\ \A k \in 1 .. Len(trace) : ~CalledAt(k)

C5_Witness ==
    /\ Len(trace) = 5
    /\ TrigDownAt(1) /\ TrigDownAt(2) /\ TrigDownAt(4) /\ TrigUpAt(5)
    /\ trace[3][1] = trigger_btn /\ trace[3][2] = Repeat
    /\ trace[4][3] = trace[1][3]

\* events i .. i+3 are trigger Down, Up, Down, Up
TwoTapsAt(i) ==
    TrigDownAt(i) /\ TrigUpAt(i + 1) /\ TrigDownAt(i + 2) /\ TrigUpAt(i + 3)

\* C6: for trigger events Down(t1), Up, Down(t2), Up with nothing in
\* between, Down(t1) a first press: fix_last_word is called on the final Up
\* exactly when t2 - t1 < DOUBLE_PRESS_DELAY (and on no other of the four);
\* when t2 - t1 >= DOUBLE_PRESS_DELAY the Down at t2 is the new first press
\* (last_press_time = t2), so a Down(t3), Up that follows with
\* t3 - t2 < DOUBLE_PRESS_DELAY is confirmed on its release.
C6_DoublePressWindow ==
    /\ (Len(trace) >= 2 /\ TrigDownAt(1)) => ~CalledAt(2)
    /\ \A i \in 1 .. (Len(trace) - 3) :
          (TwoTapsAt(i) /\ ~CalledAt(i + 1)) =>
              /\ ~CalledAt(i) /\ ~CalledAt(i + 2)
              /\ CalledAt(i + 3) <=> (trace[i + 2][3] - trace[i][3] < DOUBLE_PRESS_DELAY)
              /\ (~CalledAt(i + 3) /\ Len(trace) = i + 3)
                     => last_press_time = trace[i + 2][3]
              /\ (~CalledAt(i + 3) /\ Len(trace) >= i + 5
                     /\ TrigDownAt(i + 4) /\ TrigUpAt(i + 5)
                     /\ trace[i + 4][3] - trace[i + 2][3] < DOUBLE_PRESS_DELAY)
                     => CalledAt(i + 5)

C6_Witness ==
    /\ Len(trace) = 6
    /\ TwoTapsAt(1) /\ TrigDownAt(5) /\ TrigUpAt(6)
    /\ trace[3][3] - trace[1][3] = DOUBLE_PRESS_DELAY
    /\ trace[5][3] = trace[3][3]
    /\ ~CalledAt(4) /\ CalledAt(6)
    /\ pc = "fix_last_word"

\* C7: a Down of another key resets last_press_time to 0, and a trigger Down
\* that has such a Down between it and the trigger Down before it is never
\* confirmed: no call of fix_last_word rests on that pair of presses.
C7_OtherKeyCancels ==
    /\ (trace # <<>> /\ OtherDownAt(Len(trace))) => last_press_time = 0
    /\ \A i, j, k \in 1 .. Len(trace) :
          (i < j /\ j < k /\ TrigDownAt(i) /\ TrigDownAt(j) /\ CalledAt(k)
             /\ (\A m \in (i + 1) .. (j - 1) : ~TrigDownAt(m))
             /\ NoTapBetween(j, k))
              => \A m \in (i + 1) .. (j - 1) : ~OtherDownAt(m)

C7_Witness ==
    /\ Len(trace) = 5
    /\ TrigDownAt(1) /\ TrigUpAt(2) /\ OtherDownAt(3) /\ TrigDownAt(4) /\ TrigUpAt(5)
    /\ trace[4][3] = trace[1][3]
    /\ ~CalledAt(5)
    /\ pc = "read"

\* ------------------------------------------------------------ buffer claims
SpaceAt(b, i) == b[i][1] = KEY_SPACE

\* b ends in one or more Spaces that follow a word
EndsInSpacesAfterWord(b) ==
    /\ b # <<>>
    /\ SpaceAt(b, Len(b))
    /\ \E i \in 1 .. Len(b) : ~SpaceAt(b, i)

\* the position of the last non-Space entry of b
LastCharAt(b) ==
    CHOOSE i \in 1 .. Len(b) :
        ~SpaceAt(b, i) /\ \A m \in (i + 1) .. Len(b) : SpaceAt(b, m)

\* the position where the word that ends at LastCharAt(b) starts
WordStartAt(b) ==
    CHOOSE j \in 1 .. LastCharAt(b) :
        /\ \A m \in j .. LastCharAt(b) : ~SpaceAt(b, m)
        /\ j = 1 \/ SpaceAt(b, j - 1)

TypedWordOnly ==
    /\ trace # <<>>
    /\ \A i \in 1 .. Len(trace) :
          /\ trace[i][1] \in trackable_range
          /\ trace[i][1] # KEY_BACKSPACE
          /\ trace[i][1] # KEY_SPACE
    /\ \A i \in 2 .. Len(trace) : trace[i][3] - trace[i - 1][3] <= TYPING_TIMEOUT

\* the recorded adds as buffer entries
TypedEntries == [i \in 1 .. Len(trace) |-> <<trace[i][1], trace[i][2]>>]

\* the last n elements of q (all of q when it is shorter)
LastN(q, n) == IF Len(q) <= n THEN q ELSE SubSeq(q, Len(q) - n + 1, Len(q))

\* C9 (as claimed): after any sequence of printable non-Space keystrokes
\* added to an empty buffer, each within the idle timeout, get_last_phrase
\* returns exactly that sequence.
C9_ReturnsWholeSequence ==
    (pc = "get_last_phrase" /\ TypedWordOnly) => keys_to_replay = TypedEntries

\* C9 (amended): ... get_last_phrase returns exactly that sequence when it
\* has at most MAX_BUFFER_SIZE keystrokes, and exactly its last
\* MAX_BUFFER_SIZE keystrokes, in typing order, when it is longer.
C9_ReturnsLastCapacity ==
    (pc = "get_last_phrase" /\ TypedWordOnly)
        => keys_to_replay = LastN(TypedEntries, MAX_BUFFER_SIZE)

C9_Witness ==
    /\ pc = "get_last_phrase"
    /\ TypedWordOnly
    /\ Len(trace) = MAX_BUFFER_SIZE + 1
    /\ trace[1][2] /\ ~trace[2][2]
    /\ trace[1][1] # trace[2][1]
    /\ keys_to_replay = Tail(TypedEntries)

\* the step is a call add(KEY_BACKSPACE, _) within the idle timeout
BackspaceAdded ==
    /\ Len(trace') = Len(trace) + 1
    /\ trace'[Len(trace')][1] = KEY_BACKSPACE
    /\ now' - last_key_time <= TYPING_TIMEOUT

\* C10: add(Backspace) within the idle timeout removes exactly the last
\* element of a non-empty buffer and keeps the earlier ones in order, leaves
\* an empty buffer empty, and Backspace is never an entry of the buffer.
C10_BackspacePopsLast ==
    /\ [](\A i \in 1 .. Len(buffer) : buffer[i][1] # KEY_BACKSPACE)
    /\ [][BackspaceAdded =>
            /\ buffer # <<>> => /\ Len(buffer') = Len(buffer) - 1
                                /\ \A i \in 1 .. Len(buffer') : buffer'[i] = buffer[i]
            /\ buffer = <<>> => buffer' = <<>>]_vars

C10_Witness ==
    /\ Len(trace) = 4
    /\ trace[4][1] = KEY_BACKSPACE
    /\ trace[4][3] - trace[3][3] <= TYPING_TIMEOUT
    /\ Len(buffer) = 2
    /\ buffer[1] # buffer[2]
    /\ buffer = <<<<trace[1][1], trace[1][2]>>, <<trace[2][1], trace[2][2]>>>>

\* ------------------------------------------------------------ idle timeout
\* a code that add appends: Space or a code of trackable_range, Backspace
\* (handled before the test of line 186) apart
Trackable(code) ==
    code # KEY_BACKSPACE /\ (code = KEY_SPACE \/ code \in trackable_range)

\* the step is a call of add that follows another one; its arguments are
\* the last entry of trace'
AddAfterAdd == trace # <<>> /\ Len(trace') = Len(trace) + 1

AddedCode == trace'[Len(trace')][1]
AddedEntry == <<trace'[Len(trace')][1], trace'[Len(trace')][2]>>
\* the time between the call and the call before it
AddGap == trace'[Len(trace')][3] - trace[Len(trace)][3]

\* C11: when the time between two consecutive calls of add exceeds
\* TYPING_TIMEOUT the buffer is cleared first: afterwards it holds only the
\* new keystroke if that is trackable and is empty if it is Backspace or an
\* ignored code.  When the time does not exceed the timeout nothing is
\* cleared: Backspace removes the last entry only, an ignored code changes
\* nothing, a trackable code is appended (the oldest entry leaving a full
\* buffer).
C11_IdleTimeoutClears ==
    [][AddAfterAdd =>
          /\ (AddGap > TYPING_TIMEOUT /\ Trackable(AddedCode))
                => buffer' = <<AddedEntry>>
          /\ (AddGap > TYPING_TIMEOUT /\ ~Trackable(AddedCode))
                => buffer' = <<>>
          /\ (AddGap <= TYPING_TIMEOUT /\ AddedCode = KEY_BACKSPACE)
                => buffer' = SubSeq(buffer, 1, Len(buffer) - 1)
          /\ (AddGap <= TYPING_TIMEOUT /\ AddedCode # KEY_BACKSPACE
                /\ ~Trackable(AddedCode))
                => buffer' = buffer
          /\ (AddGap <= TYPING_TIMEOUT /\ Trackable(AddedCode))
                => /\ buffer'[Len(buffer')] = AddedEntry
                   /\ Len(buffer') = IF Len(buffer) < MAX_BUFFER_SIZE
                                     THEN Len(buffer) + 1 ELSE MAX_BUFFER_SIZE
                   /\ \A i \in 1 .. (Len(buffer') - 1) :
                         buffer'[i] = buffer[Len(buffer) - Len(buffer') + 1 + i]
      ]_vars

C11_Witness ==
    /\ Len(trace) = 3
    /\ Trackable(trace[1][1]) /\ Trackable(trace[2][1]) /\ Trackable(trace[3][1])
    /\ trace[2][3] - trace[1][3] = TYPING_TIMEOUT
    /\ trace[3][3] - trace[2][3] = TYPING_TIMEOUT + 1
    /\ buffer = <<<<trace[3][1], trace[3][2]>>>>

\* --------------------------------------------------------------- reset keys
\* the event loop handles the Down of Esc, one of the reset keys
ResetKeyDown == \E gap \in Gaps : Dispatch(KEY_ESC, Down, gap)

\* C12: the Down of a reset key (here Esc) empties the keystroke buffer, so
\* that a double-press right after it finds nothing to replay.
C12_ResetKeyEmptiesBuffer == [][ResetKeyDown => buffer' = <<>>]_vars

\* ----------------------------------------------------------------- capacity
\* the step is a call of add, within the idle timeout, that appends to a
\* full buffer
AppendToFull ==
    /\ AddAfterAdd
    /\ Len(buffer) = MAX_BUFFER_SIZE
    /\ AddGap <= TYPING_TIMEOUT
    /\ Trackable(AddedCode)

\* C13: the buffer never holds more than MAX_BUFFER_SIZE entries, and an
\* append to a full buffer drops exactly the oldest entry: the others keep
\* their order and the new entry is last.
C13_BoundedDropsOldest ==
    /\ [](Len(buffer) <= MAX_BUFFER_SIZE)
    /\ [][AppendToFull =>
             /\ Len(buffer') = MAX_BUFFER_SIZE
             /\ \A i \in 1 .. (MAX_BUFFER_SIZE - 1) : buffer'[i] = buffer[i + 1]
             /\ buffer'[MAX_BUFFER_SIZE] = AddedEntry
       ]_vars

\* MAX_BUFFER_SIZE + 1 appends within the timeout, the first two entries
\* distinct, the second with Shift: the buffer is all but the first
C13_Witness ==
    /\ pc = "add"
    /\ Len(trace) = MAX_BUFFER_SIZE + 1
    /\ \A i \in 1 .. Len(trace) : Trackable(trace[i][1])
    /\ \A i \in 2 .. Len(trace) : trace[i][3] - trace[i - 1][3] <= TYPING_TIMEOUT
    /\ ~trace[1][2] /\ trace[2][2]
    /\ buffer = Tail(TypedEntries)

\* ------------------------------------------------------------- trigger key
\* C14: no entry of the buffer, and so no entry of a phrase taken from it,
\* ever has the code of the trigger key: the trigger's own Down, Repeat and
\* Up are never recorded.
C14_TriggerNeverBuffered ==
    /\ \A i \in 1 .. Len(buffer) : buffer[i][1] # trigger_btn
    /\ \A i \in 1 .. Len(keys_to_replay) : keys_to_replay[i][1] # trigger_btn

\* the trigger is held down for the second time, over a full buffer, and
\* the double-press is confirmed
C14_Witness ==
    /\ pc = "read"
    /\ ~trigger_released /\ pending_action /\ shift_pressed
    /\ Len(buffer) = MAX_BUFFER_SIZE

\* ------------------------------------------------------------ layout switch
\* the keys held on the sink after the first n key writes of w
HeldAfter(w, n) ==
    {w[i][2] : i \in {j \in 1 .. n :
                        /\ w[j][3] # Up
                        /\ \A l \in (j + 1) .. n : w[l][2] = w[j][2] => w[l][3] # Up}}

\* Alt, Meta and Ctrl: the keys a desktop acts on when one of them is
\* released alone
TrueModifiers == {KEY_LEFTALT, KEY_RIGHTALT, KEY_LEFTMETA, KEY_RIGHTMETA,
                  KEY_LEFTCTRL, KEY_RIGHTCTRL}

\* the key writes of perform_layout_switch start after these many writes
SwitchBase == Len(modifiers) + 2 * Len(keys_to_replay)

\* C15: perform_layout_switch presses every key of the combination and then
\* releases them in the order they were pressed; for every hotkey style,
\* at no point of the release phase is the set of held keys a true modifier
\* (Alt, Meta, Ctrl) alone.
C15_ReleaseInPressOrder ==
    (pc = "replay_keys" /\ idx = 0) =>
        LET w == KeyWrites(sink)
            m == Len(switch_keys)
        IN  /\ Len(w) = SwitchBase + 2 * m
            /\ \A j \in 1 .. m :
                  /\ w[SwitchBase + j] = <<EV_KEY, switch_keys[j], Down>>
                  /\ w[SwitchBase + m + j] = <<EV_KEY, switch_keys[j], Up>>
                  /\ HeldAfter(w, SwitchBase + m + j) =
                        {switch_keys[l] : l \in (j + 1) .. m}
                  /\ \A k \in TrueModifiers :
                        HeldAfter(w, SwitchBase + m + j) # {k}
            /\ HeldAfter(w, SwitchBase + m) = {switch_keys[l] : l \in 1 .. m}

\* the Alt+Shift combination has just been pressed and released
C15_Witness ==
    /\ pc = "replay_keys" /\ idx = 0
    /\ switch_keys = <<KEY_LEFTALT, KEY_LEFTSHIFT>>
    /\ Len(keys_to_replay) = 2
    /\ Len(KeyWrites(sink)) = SwitchBase + 4

\* -------------------------------------------------------------------- replay
\* The key writes w from place q on are the replay of p from element i on:
\* a shifted element is Shift Down, key Down, key Up, Shift Up; an unshifted
\* one is key Down, key Up, written while Left Shift is not held.
RECURSIVE WrapsFrom(_, _, _, _)
WrapsFrom(w, q, p, i) ==
    IF i > Len(p) THEN q = Len(w) + 1
    ELSE IF p[i][2]
         THEN /\ q + 3 <= Len(w)
              /\ w[q] = <<EV_KEY, KEY_LEFTSHIFT, Down>>
              /\ w[q + 1] = <<EV_KEY, p[i][1], Down>>
              /\ w[q + 2] = <<EV_KEY, p[i][1], Up>>
              /\ w[q + 3] = <<EV_KEY, KEY_LEFTSHIFT, Up>>
              /\ KEY_LEFTSHIFT \notin HeldAfter(w, q + 3)
              /\ WrapsFrom(w, q + 4, p, i + 1)
         ELSE /\ q + 1 <= Len(w)
              /\ w[q] = <<EV_KEY, p[i][1], Down>>
              /\ w[q + 1] = <<EV_KEY, p[i][1], Up>>
              /\ KEY_LEFTSHIFT \notin HeldAfter(w, q + 1)
              /\ WrapsFrom(w, q + 2, p, i + 1)

\* C16: in the replay every element recorded with Shift is written as
\* Shift Down, key Down, key Up, Shift Up, and every element recorded
\* without Shift as key Down, key Up with no Shift write and Left Shift not
\* held: the Shift state of one element never carries over to the next.
C16_ShiftWrapsEachKey ==
    (pc = "fix_return" /\ keys_to_replay # <<>>) =>
        /\ WrapsFrom(KeyWrites(sink), SwitchBase + 2 * Len(switch_keys) + 1,
                     keys_to_replay, 1)
        /\ HeldAfter(KeyWrites(sink), Len(KeyWrites(sink))) = {}

\* a shifted element followed by an unshifted one has been replayed
C16_Witness ==
    /\ pc = "fix_return"
    /\ Len(keys_to_replay) = 3
    /\ keys_to_replay[1][2] /\ ~keys_to_replay[2][2] /\ keys_to_replay[3][2]
    /\ Len(KeyWrites(sink)) = SwitchBase + 2 * Len(switch_keys) + 10

\* ------------------------------------------------------------ shift tracking
ShiftKeys == {KEY_LEFTSHIFT, KEY_RIGHTSHIFT}

\* the places of the Shift events in the recorded run
ShiftEventAt == {i \in 1 .. Len(trace) : trace[i][1] \in ShiftKeys}

\* the latest Shift event of the recorded run was a Down or a Repeat
LastShiftEventHolds ==
    /\ ShiftEventAt # {}
    /\ LET m == CHOOSE i \in ShiftEventAt : \A j \in ShiftEventAt : j <= i
       IN  trace[m][2] \in {Down, Repeat}

\* C17: after any sequence of events, and at every point of fix_last_word,
\* shift_pressed is true exactly when the latest event of a Shift key (Left
\* or Right) was a Down or a Repeat, and false when it was an Up or when
\* there was none; events of other keys leave it as it was.
C17_ShiftFollowsLastShiftEvent == shift_pressed = LastShiftEventHolds

\* Left Shift went down and a letter was pressed and released: still true;
\* then the trigger (Right Shift) was released: false
C17_Witness ==
    /\ Len(trace) = 5
    /\ trace[1][1] = KEY_LEFTSHIFT /\ trace[1][2] = Down
    /\ trace[2][1] = KEY_H /\ trace[2][2] = Down
    /\ trace[3][1] = KEY_H /\ trace[3][2] = Up
    /\ trace[4][1] = KEY_RIGHTSHIFT /\ trace[4][2] = Up
    /\ trace[5][1] = KEY_H /\ trace[5][2] = Down
    /\ buffer = <<<<KEY_LEFTSHIFT, TRUE>>, <<KEY_H, TRUE>>, <<KEY_H, FALSE>>>>
    /\ ~shift_pressed

\* ------------------------------------------------------ get_last_phrase frame
\* C18: a call of get_last_phrase leaves buffer and last_key_time as they
\* were, so that the phrase it returns is the one a call on the buffer it
\* leaves returns: a second call right after the first returns the same.
C18_GetLastPhraseReadsOnly ==
    [][pc' = "get_last_phrase" =>
          /\ buffer' = buffer
          /\ last_key_time' = last_key_time
          /\ keys_to_replay' = get_last_phrase(buffer')
          /\ pc = "get_last_phrase" => keys_to_replay' = keys_to_replay
      ]_vars

\* a phrase shorter than the full buffer has been returned
C18_Witness ==
    /\ pc = "get_last_phrase"
    /\ Len(buffer) = MAX_BUFFER_SIZE
    /\ Len(keys_to_replay) = 2
    /\ buffer[Len(buffer)][1] = KEY_SPACE

\* ---------------------------------------------------------- buffered codes
\* C19: every entry of the buffer is Space or a printable character key; the
\* Down of a modifier key (Left Shift, Left Ctrl) is never appended.
C19_OnlyPrintableBuffered ==
    \A i \in 1 .. Len(buffer) : buffer[i][1] \notin {KEY_LEFTSHIFT, KEY_LEFTCTRL}

\* ------------------------------------------------- key after the second press
\* C20: in a recorded run that is trigger Down, Up, trigger Down within
\* DOUBLE_PRESS_DELAY, another key's Down, trigger Up, the other key's Down
\* cancels the pending action: handling the final Up does not call
\* fix_last_word.
C20_KeyAfterSecondPressCancels ==
    (/\ Len(trace) = 5
     /\ TrigDownAt(1) /\ TrigUpAt(2) /\ TrigDownAt(3)
     /\ trace[3][3] - trace[1][3] < DOUBLE_PRESS_DELAY
     /\ OtherDownAt(4) /\ TrigUpAt(5))
        => ~CalledAt(5)

\* -------------------------------------------------- stale buffer at the read
\* fix_last_word is past its read of the buffer (line 347)
PastRead ==
    pc \in {"reset_modifiers", "delete", "perform_layout_switch",
            "replay_keys", "fix_return"}

\* C21: a double-press confirmed more than TYPING_TIMEOUT after the last
\* keystroke finds the buffer stale: fix_last_word takes no phrase from it
\* and writes nothing (now is the clock reading of the confirming Down).
C21_StaleBufferNotReplayed ==
    (PastRead /\ now - last_key_time > TYPING_TIMEOUT)
        => (keys_to_replay = <<>> /\ sink = <<>>)

\* ---------------------------------------------------------- run to completion
\* what the dispatch of an event can change
LoopState == <<buffer, last_key_time, shift_pressed, trigger_released,
               last_press_time>>

\* the steps fix_last_word has still to take, at most: it falls with every
\* step of the call and is 0 at the read
StepsLeft ==
    LET n == Len(keys_to_replay)
    IN  CASE pc = "fix_last_word" -> 2 * Len(buffer) + 6
          [] pc = "reset_modifiers" -> 2 * n + 5
          [] pc = "delete" -> (n - idx) + n + 4
          [] pc = "perform_layout_switch" -> n + 3
          [] pc = "replay_keys" -> (n - idx) + 2
          [] pc = "fix_return" -> 1
          [] OTHER -> 0

\* the most entries one call writes to the sink: the modifier releases and
\* their report, four per Backspace, the combination pressed and released
\* with two reports, eight per replayed key
MostWrites ==
    Len(modifiers) + 1 + 4 * Len(keys_to_replay) + 2 * Len(switch_keys) + 2
        + 8 * Len(keys_to_replay)

\* C22: once fix_last_word has begun it runs to completion.  While the thread
\* is inside it, an event that arrives only joins the queue: no event leaves
\* the queue and buffer, shift and trigger state stay as they are; every step
\* of the call brings its end nearer, so it ends after finitely many sink
\* writes.  Back at the read, the loop takes the events in arrival order,
\* the oldest first, and drops none.
C22_RunsToCompletion ==
    /\ [](PastRead => Len(sink) <= MostWrites)
    /\ [][/\ pc # "read" =>
                /\ LoopState' = LoopState
                /\ \/ /\ trace' = trace
                      /\ StepsLeft' < StepsLeft
                   \/ /\ \E ev \in QueueEvents : trace' = Append(trace, ev)
                      /\ pc' = pc /\ sink' = sink
          /\ pc = "read" =>
                \/ /\ \E ev \in QueueEvents : trace' = Append(trace, ev)
                   /\ LoopState' = LoopState /\ pc' = pc
                \/ /\ trace # <<>> /\ trace' = Tail(trace)
                   /\ Dispatch(Head(trace)[1], Head(trace)[2], 0)
         ]_vars

\* two events have arrived and wait while the second key of the phrase is
\* being replayed
C22_Witness ==
    /\ pc = "replay_keys" /\ idx = 1
    /\ Len(keys_to_replay) = 2
    /\ trace = <<<<KEY_H, Down>>, <<KEY_RIGHTSHIFT, Down>>>>
    /\ Len(sink) > Len(modifiers)

\* ------------------------------------------------------------ nothing held
\* C23: when fix_last_word returns, every key Down it wrote (Backspace, the
\* keys of the combination, the replayed keys, the wrapping Left Shift) has
\* a later Up of the same code, as many Ups as Downs were written after the
\* modifier releases, and no key is held on the sink; for every phrase and
\* every hotkey style.
C23_NothingLeftHeld ==
    pc = "fix_return" =>
        LET w == KeyWrites(sink)
            downs(c) == {i \in (Len(modifiers) + 1) .. Len(w) :
                            w[i][2] = c /\ w[i][3] = Down}
            ups(c) == {i \in (Len(modifiers) + 1) .. Len(w) :
                          w[i][2] = c /\ w[i][3] = Up}
        IN  /\ \A i \in 1 .. Len(w) :
                  w[i][3] = Down =>
                      \E j \in (i + 1) .. Len(w) : w[j] = <<EV_KEY, w[i][2], Up>>
            /\ \A i \in 1 .. Len(w) :
                  Cardinality(downs(w[i][2])) = Cardinality(ups(w[i][2]))
            /\ HeldAfter(w, Len(w)) = {}
            /\ \A i \in 1 .. Len(sink) : sink[i][1] = EV_KEY => sink[i][3] # Repeat

\* the call has returned after a phrase with a shifted key under Ctrl+Shift
C23_Witness ==
    /\ pc = "fix_return"
    /\ switch_keys = <<KEY_LEFTCTRL, KEY_LEFTSHIFT>>
    /\ Len(keys_to_replay) = MAX_BUFFER_SIZE
    /\ keys_to_replay[MAX_BUFFER_SIZE][2]
    /\ \E i \in 1 .. Len(sink) : sink[i] = <<EV_KEY, KEY_BACKSPACE, Down>>

\* ------------------------------------------------------------ runs of taps
\* the place of the first trigger event of the recorded run
FirstTap == IF trace # <<>> /\ trace[1][1] # trigger_btn THEN 2 ELSE 1

\* From FirstTap on the run is trigger Down, Up, Down, Up, ... and every
\* Down is less than DOUBLE_PRESS_DELAY after the event before it.
RapidTaps ==
    \A i \in FirstTap .. Len(trace) :
        /\ trace[i][1] = trigger_btn
        /\ trace[i][2] = (IF (i - FirstTap) % 2 = 0 THEN Down ELSE Up)
        /\ i > FirstTap => trace[i][3] - trace[i - 1][3] < DOUBLE_PRESS_DELAY

\* the finished taps and the calls of fix_last_word of the recorded run
Taps == Cardinality({i \in 1 .. Len(trace) : TrigUpAt(i)})
Calls == Cardinality({i \in 1 .. Len(trace) : CalledAt(i)})

\* C24: a confirmed double-press consumes both presses: in a rapid run of k
\* trigger taps with no other key between them fix_last_word is called
\* exactly k \div 2 times, on the release of every second tap; the confirming
\* Down leaves last_press_time at 0, so the tap after it is a first press.
C24_TapsConsumedInPairs ==
    RapidTaps =>
        /\ Calls = Taps \div 2
        /\ \A i \in 1 .. Len(trace) :
              CalledAt(i) <=> (TrigUpAt(i) /\ (i - FirstTap) % 4 = 3)
        /\ (Len(trace) >= FirstTap /\ pc = "read"
                /\ (Len(trace) - FirstTap) % 4 = 2)
              => (last_press_time = 0 /\ pending_action)

\* five taps in a row: two calls, the fifth tap alone causes none
C24_Witness ==
    /\ RapidTaps
    /\ FirstTap = 1
    /\ Len(trace) = 10
    /\ Taps = 5 /\ Calls = 2
    /\ pc = "read"

\* ------------------------------------------------------------ pending_action
\* C25 (as claimed): in every reachable state pending_action implies that
\* the trigger is down and that last_press_time is 0.
C25_PendingImpliesTriggerDown ==
    pending_action => (~trigger_released /\ last_press_time = 0)

\* C25 (amended): whenever the loop is waiting for an event, pending_action
\* implies that the trigger is down and that last_press_time is 0, so that
\* pending_action is false when the trigger is released.  Inside
\* fix_last_word, which the trigger's Up calls after setting
\* trigger_released, pending_action is true with the trigger released and
\* last_press_time 0.
C25_PendingAtTheRead ==
    /\ pc = "read" =>
          /\ pending_action => (~trigger_released /\ last_press_time = 0)
          /\ trigger_released => ~pending_action
    /\ pc # "read" =>
          (pending_action /\ trigger_released /\ last_press_time = 0)

\* the loop waits with a confirmed double-press pending over one keystroke
C25_Witness ==
    /\ pc = "read"
    /\ pending_action /\ ~trigger_released /\ last_press_time = 0
    /\ Len(buffer) = 1
    /\ now > StartTime

\* ------------------------------------------------------------ frame of events
\* the step handles an event of the recorded run: the last entry of trace'
EventStep == Len(trace') = Len(trace) + 1
EventCode == trace'[Len(trace')][1]
EventValue == trace'[Len(trace')][2]

\* C26: an event of the trigger key (Down, Repeat or Up) leaves the buffer
\* and last_key_time as they were; an Up of another key leaves buffer,
\* last_key_time, last_press_time and pending_action as they were; the
\* buffer changes only in the handling of a Down or Repeat of a key other
\* than the trigger.
C26_EventFrames ==
    [][/\ (EventStep /\ EventCode = trigger_btn) =>
              (buffer' = buffer /\ last_key_time' = last_key_time)
       /\ (EventStep /\ EventCode # trigger_btn /\ EventValue = Up) =>
              /\ buffer' = buffer /\ last_key_time' = last_key_time
              /\ last_press_time' = last_press_time
              /\ pending_action' = pending_action
       /\ (buffer' # buffer \/ last_key_time' # last_key_time) =>
              /\ EventStep
              /\ EventCode # trigger_btn
              /\ EventValue \in {Down, Repeat}
      ]_vars

\* a letter, the trigger pressed, Left Shift released, the trigger released:
\* the buffer still holds the letter alone and the first press stands
C26_Witness ==
    /\ pc = "read"
    /\ Len(trace) = 4
    /\ trace[1][1] = KEY_H /\ trace[1][2] = Down
    /\ trace[2][1] = trigger_btn /\ trace[2][2] = Down
    /\ trace[3][1] = KEY_LEFTSHIFT /\ trace[3][2] = Up
    /\ trace[4][1] = trigger_btn /\ trace[4][2] = Up
    /\ buffer = <<<<KEY_H, FALSE>>>>
    /\ last_press_time = now

\* ------------------------------------------------------- shape of the phrase
\* C27: for every buffer, the phrase fix_last_word takes from it with
\* get_last_phrase is a contiguous suffix of the buffer, is empty exactly
\* when the buffer is empty, and holds at most one word: no Space of it lies
\* between two non-Space entries (indeed no Space of it is followed by a
\* non-Space at all).
C27_PhraseIsOneWordSuffix ==
    PastRead =>
        LET p == keys_to_replay
            b == buffer
        IN  /\ Len(p) <= Len(b)
            /\ \A i \in 1 .. Len(p) : p[i] = b[Len(b) - Len(p) + i]
            /\ (p = <<>>) <=> (b = <<>>)
            /\ \A i, j, k \in 1 .. Len(p) :
                  (i < j /\ j < k) =>
                      ~(p[i][1] # KEY_SPACE /\ p[j][1] = KEY_SPACE
                          /\ p[k][1] # KEY_SPACE)
            /\ \A j, k \in 1 .. Len(p) :
                  j < k => ~(p[j][1] = KEY_SPACE /\ p[k][1] # KEY_SPACE)

\* a buffer of two words: only the second is taken
C27_Witness ==
    /\ pc = "reset_modifiers"
    /\ Len(buffer) = 3
    /\ buffer[1][1] = KEY_H /\ buffer[2][1] = KEY_SPACE /\ buffer[3][1] = KEY_I
    /\ keys_to_replay = <<buffer[3]>>

\* ------------------------------------------------- the cache of the old variant
\* a key whose press is to empty the cache: not Right Shift, Right Ctrl or
\* Backspace, not a mapped key, not a listed modifier
ClearingCode(code) ==
    code \notin ({RIGHT_SHIFT, RIGHT_CTRL, KEY_BACKSPACE} \cup LAYOUT_MAPS["us"]
                    \cup NON_CLEARING_KEYS)

\* the latest event was the Down of a clearing key
ClearingKeyPressed ==
    trace # <<>> /\ trace[1][2] = Down /\ ClearingCode(trace[1][1])

\* the latest event was the release that ended the wait before
\* correct_last_typed
CorrectedLastTyped ==
    trace = <<<<RIGHT_SHIFT, Up, "wait_right_shift">>>>

\* C28 (as claimed): the Down of any key that is not Right Shift, Right Ctrl,
\* Backspace, a mapped key or a listed modifier empties the cache.
C28_AnyClearingKeyEmptiesCache == ClearingKeyPressed => cache = <<>>

\* C28 (amended): the cache is empty after every call of correct_last_typed;
\* the Down of a clearing key that the main loop handles empties the cache
\* (one read by wait_for_key_release is dropped); the Down of a listed
\* modifier leaves the cache as it was.
C28_CacheClearing ==
    /\ [](CorrectedLastTyped => cache = <<>>)
    /\ []((ClearingKeyPressed /\ trace[1][3] = "read") => cache = <<>>)
    /\ [][(trace' # <<>> /\ trace'[1][2] = Down
              /\ trace'[1][1] \in NON_CLEARING_KEYS) => cache' = cache]_vars

\* correct_last_typed has just replaced a full cache: CACHE_SIZE Backspaces,
\* the layout set, the text typed, and the cache empty
C28_Witness ==
    /\ CorrectedLastTyped
    /\ pc = "read"
    /\ cache = <<>>
    /\ Len(sink) = 3
    /\ sink[1] = <<"backspace", CACHE_SIZE>>

====
